---- MODULE Spec2Model ----
(***************************************************************************)
(* Audio capture and recording lifecycle of the dictation utility          *)
(* (src-tauri/src/audio.rs): device negotiation in AudioRecorder::new, the *)
(* start_recording / stop_recording calls of controller threads, the       *)
(* driver's input callback, and the WAV file written at stop; and the      *)
(* start_recording / stop_recording commands (src-tauri/src/commands.rs)   *)
(* that call the recorder held in AppState and transcribe the file.        *)
(*                                                                         *)
(* A sample is an integer v that stands for the real number                *)
(* v / (SampleDen * I16Max): a float sample k/SampleDen delivered by the   *)
(* hardware is k * I16Max, and an integer sample x normalised by the       *)
(* callback to x / i16::MAX is x * SampleDen.  Every product taken by the   *)
(* code on these values is exact in f32.                                   *)
(***************************************************************************)
EXTENDS Integers, Sequences, FiniteSets, TLC

\* ------------------------------------------------------------ bounds
\* Resolution of the float samples the hardware delivers: multiples of 1/SampleDen.
SampleDen == 4
\* Samples the buffer may hold before the driver stops delivering blocks.
MaxBuffer == 4
\* Hardware streams the driver builds in one run.
MaxStreams == 2
\* Longest list of supported configurations a device reports.
MaxConfigs == 2

\* ------------------------------------------------- program constants
I16Max == 32767
I16Min == -32768
TargetRate == 16000
TargetChannels == 1
BitsPerSample == 16

Threads == {"t1", "t2"}
Paths == {"a.wav", "b.wav"}
\* The file names of the seconds the clock goes through, in order:
\* format!("{}.wav", now) names different seconds differently.
PathNames == <<"a.wav", "b.wav">>
NoStream == 0
NoConfig == [fmt |-> "none", channels |-> 0, rate |-> 0]
NoSpec == [channels |-> 0, sample_rate |-> 0, bits_per_sample |-> 0]
NoFile == [state |-> "absent", header |-> NoSpec, frames |-> <<>>]
\* A failed enumeration of the device's configurations.
QueryErr == [ok |-> FALSE, list |-> <<>>]
QueryOk(l) == [ok |-> TRUE, list |-> l]
\* The result of a command: none yet, Ok, or Err(CommandError {message}).
NoResult == [done |-> FALSE, ok |-> FALSE, message |-> ""]
CommandOk == [done |-> TRUE, ok |-> TRUE, message |-> ""]
CommandError(m) == [done |-> TRUE, ok |-> FALSE, message |-> m]

\* ------------------------------------------------- device negotiation
\* The sample formats cpal can report; U16 stands for every format other
\* than the two the recorder accepts.
SampleFormats == {"F32", "I16", "U16"}
RateRanges == {<<8000, 48000>>, <<44100, 48000>>}
ConfigRanges ==
    {[fmt |-> f, channels |-> c, min |-> r[1], max |-> r[2]] :
        f \in SampleFormats, c \in {1, 2}, r \in RateRanges}

SeqsUpTo(S, n) == UNION {[1..k -> S] : k \in 0..n}

\* The filter of lines 89 and 94.
Accepted(c) == c.fmt = "F32" \/ c.fmt = "I16"
\* The target predicate without its test of the channel count.
MatchesTarget_AnyChannels(c) ==
    /\ c.min <= TargetRate
    /\ TargetRate <= c.max

\* The predicate of find in line 90.
MatchesTarget(c) ==
    /\ c.min <= TargetRate
    /\ TargetRate <= c.max
    /\ c.channels = TargetChannels
\* The fallback predicate without its test of the channel count.
MatchesMono_AnyChannels(c) == c.channels >= TargetChannels

\* The predicate of find in line 95.
MatchesMono(c) == c.channels = TargetChannels

\* Iterator::filter(..).find(..): the index of the first accepted element
\* that satisfies P, 0 when there is none.
FirstIndex(list, P(_)) ==
    LET hits == {i \in 1..Len(list) : Accepted(list[i]) /\ P(list[i])}
    IN  IF hits = {} THEN 0 ELSE CHOOSE i \in hits : \A j \in hits : i <= j

WithSampleRate(c, r) == [fmt |-> c.fmt, channels |-> c.channels, rate |-> r]
WithMaxSampleRate(c) == WithSampleRate(c, c.max)

\* The fallback closure of or_else: the device is enumerated a second time,
\* and an enumeration error becomes None.
FallbackConfig(second) ==
    IF ~second.ok THEN NoConfig
    ELSE LET i == FirstIndex(second.list, MatchesMono)
         IN  IF i = 0 THEN NoConfig ELSE WithMaxSampleRate(second.list[i])

\* The chain of lines 88-98 on the two enumerations of the device (the
\* first one succeeded: line 84 returns its error).
SelectConfig(first, second) ==
    LET i == FirstIndex(first.list, MatchesTarget)
    IN  IF i # 0 THEN WithSampleRate(first.list[i], TargetRate)
        ELSE FallbackConfig(second)

\* The outcome of AudioRecorder::new on a host.
NewOutcome(h) ==
    IF ~h.has_device THEN "NoDefaultInputDevice"
    ELSE IF ~h.first.ok THEN "SupportedConfigsError"
    ELSE IF SelectConfig(h.first, h.second) = NoConfig THEN "NoSupportedConfig"
    ELSE "Ok"

\* ------------------------------------------------------------ samples
F32Sample(k) == k * I16Max
\* The integer conversion dividing by 32768 instead of i16::MAX:
\* x / 32768 = x / 32767 - x / (32767 * 32768).
I16Sample_By32768(x) == x * SampleDen - (x * SampleDen) \div 32768

\* The conversion of the I16 callback, line 149: s as f32 / i16::MAX as f32.
I16Sample(x) == x * SampleDen

TruncDiv(n, d) == IF n >= 0 THEN n \div d ELSE -((-n) \div d)
Clamp(v, lo, hi) == IF v < lo THEN lo ELSE IF v > hi THEN hi ELSE v

\* Line 205: (sample * i16::MAX as f32).clamp(i16::MIN as f32, i16::MAX as f32) as i16.
\* The product is v / SampleDen; the cast truncates toward zero.
SampleToI16(v) ==
    TruncDiv(Clamp(v, I16Min * SampleDen, I16Max * SampleDen), SampleDen)

EncodeSamples(samples) == [i \in 1..Len(samples) |-> SampleToI16(samples[i])]

\* The blocks the driver hands to the callback, by hardware format: float
\* blocks in units of 1/SampleDen, integer blocks as i16 values.
HwBlocks(fmt) ==
    IF fmt = "F32" THEN {<<2, -2>>, <<6, -6>>}
    ELSE IF fmt = "I16" THEN {<<I16Max, 0>>}
    ELSE {}

\* -------------------------------------------------------------- state
VARIABLES
    host,           \* what the audio host answers to AudioRecorder::new
    recorder,       \* AppState.recorder: "uninit", "ready" (Some) or "unavailable" (None)
    new_result,     \* what AudioRecorder::new returned
    config,         \* AudioRecorder.config
    active_stream,  \* AudioRecorder.active_stream: NoStream or a stream id
    slot_lock,      \* holder of the active_stream mutex
    is_recording,   \* RecorderSharedState.is_recording
    buffer,         \* RecorderSharedState.buffer
    state_lock,     \* holder of the shared_state mutex
    streams,        \* the hardware streams built so far, by id: their state
    cb,             \* the driver's callback thread
    pc,             \* each controller thread's position
    op,             \* the call a controller thread makes or made last
    result,         \* what that call returned
    path,           \* stop_recording's output_path
    taken,          \* the stream a call holds outside the slot
    buffer_copy,    \* stop_recording's buffer_copy
    files,          \* the file system, by path
    appended,       \* history: per stream, the samples its callback appended
    cycle,          \* history: the call an undisturbed start/stop alternation
                    \* makes next; "off" once a call came out of turn or a
                    \* driver or file operation failed
    cmd,            \* each thread's position in a command; "direct" when the
                    \* thread calls the recorder without the command layer
    recorder_lock,  \* holder of the AppState.recorder mutex
    output_path,    \* the stop_recording command's output_path
    cmd_result,     \* what the thread's last command returned
    requests,       \* the paths sent to the transcription service
    err_log,        \* the streams whose driver reported an error to err_fn
    now             \* the system clock, in whole seconds

vars == <<host, recorder, new_result, config, active_stream, slot_lock,
          is_recording, buffer, state_lock, streams, cb, pc, op, result,
          path, taken, buffer_copy, files, appended, cycle, cmd,
          recorder_lock, output_path, cmd_result, requests, err_log, now>>

recorder_vars == <<host, recorder, new_result, config>>
shared_vars == <<is_recording, buffer, state_lock>>
call_vars == <<pc, op, result, path, taken, buffer_copy>>
history_vars == <<appended, cycle>>
command_vars == <<cmd, recorder_lock, output_path, cmd_result, requests,
                  err_log, now>>

CbIdle == [pc |-> "idle", stream |-> NoStream, data |-> <<>>]

\* A host with one device whose two enumerations agree.
StableHost(l) == [has_device |-> TRUE, first |-> QueryOk(l), second |-> QueryOk(l)]

\* The hosts the lifecycle is explored on: a float device that supports the
\* target rate, an integer device that does not, and a stereo-only device.
LifecycleHosts ==
    { StableHost(<<[fmt |-> "F32", channels |-> 1, min |-> 8000, max |-> 48000]>>),
      StableHost(<<[fmt |-> "I16", channels |-> 1, min |-> 44100, max |-> 48000]>>),
      StableHost(<<[fmt |-> "F32", channels |-> 2, min |-> 8000, max |-> 48000]>>) }

\* Every host within the bounds: no device, a failing first enumeration, or
\* a list; the second enumeration fails, repeats the first, or differs.
Queries == {QueryErr} \cup {QueryOk(l) : l \in SeqsUpTo(ConfigRanges, MaxConfigs)}
SecondQueries(first) ==
    {QueryErr, first} \cup {QueryOk(l) : l \in SeqsUpTo(ConfigRanges, 1)}
AllHosts ==
    {[has_device |-> FALSE, first |-> QueryErr, second |-> QueryErr]}
    \cup UNION {{[has_device |-> TRUE, first |-> f, second |-> s] :
                    s \in SecondQueries(f)} : f \in Queries}

\* The state before run() constructs the recorder, on a host of `hosts`;
\* every thread starts at `mode`: "direct" for threads that call the
\* recorder themselves, "idle" for threads that run commands.
InitOn(hosts, mode) ==
    /\ host \in hosts
    /\ recorder = "uninit"
    /\ new_result = "none"
    /\ config = NoConfig
    /\ active_stream = NoStream
    /\ slot_lock = "free"
    /\ is_recording = FALSE
    /\ buffer = <<>>
    /\ state_lock = "free"
    /\ streams = <<>>
    /\ cb = CbIdle
    /\ pc = [t \in Threads |-> "idle"]
    /\ op = [t \in Threads |-> "none"]
    /\ result = [t \in Threads |-> "none"]
    /\ path = [t \in Threads |-> "none"]
    /\ taken = [t \in Threads |-> NoStream]
    /\ buffer_copy = [t \in Threads |-> <<>>]
    /\ files = [p \in Paths |-> NoFile]
    /\ appended = <<>>
    /\ cycle = "start"
    /\ cmd = [t \in Threads |-> mode]
    /\ recorder_lock = "free"
    /\ output_path = [t \in Threads |-> "none"]
    /\ cmd_result = [t \in Threads |-> NoResult]
    /\ requests = {}
    /\ err_log = {}
    /\ now = 1

Init == InitOn(LifecycleHosts, "direct")

\* ---------------------------------------------------- AudioRecorder::new
\* run() stores Some(recorder) or, when new fails, None.
NewRecorder ==
    /\ recorder = "uninit"
    /\ new_result' = NewOutcome(host)
    /\ recorder' = IF NewOutcome(host) = "Ok" THEN "ready" ELSE "unavailable"
    /\ config' = IF NewOutcome(host) = "Ok"
                 THEN SelectConfig(host.first, host.second) ELSE NoConfig
    /\ UNCHANGED <<host, command_vars, active_stream, slot_lock, shared_vars,
                   streams, cb, call_vars, files, history_vars>>

\* ------------------------------------------------------- start_recording
\* A call of o: in turn it passes the turn on, out of turn it ends the
\* alternation.
Alternate(o) ==
    IF cycle = o THEN (IF o = "start" THEN "stop" ELSE "start") ELSE "off"

\* The call returns r: the thread is idle again and its locals are gone.
Return(t, r) ==
    /\ pc' = [pc EXCEPT ![t] = "idle"]
    /\ result' = [result EXCEPT ![t] = r]
    /\ path' = [path EXCEPT ![t] = "none"]
    /\ taken' = [taken EXCEPT ![t] = NoStream]
    /\ buffer_copy' = [buffer_copy EXCEPT ![t] = <<>>]

\* The call moves on to l with its locals as they are.
Goto(t, l) ==
    /\ pc' = [pc EXCEPT ![t] = l]
    /\ UNCHANGED <<result, path, taken, buffer_copy>>

\* No callback of stream s is running: dropping a stream waits for it.
CallbackQuiet(s) == cb.stream # s

SetStream(s, st) == streams' = [streams EXCEPT ![s] = st]

\* The history of a stream is kept until the call that drops it returns.
Forget(s) == appended' = [appended EXCEPT ![s] = <<>>]

\* A thread calls AudioRecorder::start_recording: on its own, or from the
\* start_recording command (commands.rs line 33).
StartCall(t) ==
    /\ recorder = "ready"
    /\ pc[t] = "idle"
    /\ cmd[t] \in {"direct", "c_start_call"}
    /\ cmd' = IF cmd[t] = "direct" THEN cmd ELSE [cmd EXCEPT ![t] = "c_start_ret"]
    /\ pc' = [pc EXCEPT ![t] = "s_lock_slot"]
    /\ op' = [op EXCEPT ![t] = "start"]
    /\ result' = [result EXCEPT ![t] = "none"]
    /\ cycle' = Alternate("start")
    /\ UNCHANGED <<recorder_vars, now, recorder_lock, output_path, cmd_result,
                   requests, err_log, active_stream, slot_lock, shared_vars,
                   streams, cb, path, taken, buffer_copy, files, appended>>

\* start_recording made idempotent: an occupied slot returns Ok.
StartLockSlot_Idempotent(t) ==
    /\ pc[t] = "s_lock_slot"
    /\ slot_lock = "free"
    /\ IF active_stream # NoStream
       THEN /\ Return(t, "Ok")
            /\ UNCHANGED slot_lock
       ELSE /\ slot_lock' = t
            /\ Goto(t, "s_lock_state")
    /\ UNCHANGED <<recorder_vars, command_vars, active_stream, shared_vars, streams, cb,
                   op, files, history_vars>>

\* Lines 111-114: lock the slot; an occupied slot is AlreadyRecording (the
\* guard is dropped by the return).
StartLockSlot(t) ==
    /\ pc[t] = "s_lock_slot"
    /\ slot_lock = "free"
    /\ IF active_stream # NoStream
       THEN /\ Return(t, "AlreadyRecording")
            /\ UNCHANGED slot_lock
       ELSE /\ slot_lock' = t
            /\ Goto(t, "s_lock_state")
    /\ UNCHANGED <<recorder_vars, command_vars, active_stream, shared_vars, streams, cb,
                   op, files, history_vars>>

\* Line 116: lock the shared state.
StartLockState(t) ==
    /\ pc[t] = "s_lock_state"
    /\ state_lock = "free"
    /\ state_lock' = t
    /\ Goto(t, "s_state")
    /\ UNCHANGED <<recorder_vars, command_vars, active_stream, slot_lock, is_recording,
                   buffer, streams, cb, op, files, history_vars>>

\* start_recording without the test of the flag in line 117.
StartState_NoFlagCheck(t) ==
    /\ pc[t] = "s_state"
    /\ state_lock' = "free"
    /\ buffer' = <<>>
    /\ is_recording' = TRUE
    /\ Goto(t, "s_build")
    /\ UNCHANGED <<recorder_vars, command_vars, active_stream, slot_lock, streams, cb, op,
                   files, history_vars>>

\* start_recording without the drop of line 122: the state guard is kept
\* while the stream is built.
StartState_KeepsLock(t) ==
    /\ pc[t] = "s_state"
    /\ IF is_recording
       THEN /\ Return(t, "AlreadyRecording")
            /\ state_lock' = "free"
            /\ slot_lock' = "free"
            /\ UNCHANGED <<is_recording, buffer>>
       ELSE /\ buffer' = <<>>
            /\ is_recording' = TRUE
            /\ Goto(t, "s_build")
            /\ UNCHANGED <<slot_lock, state_lock>>
    /\ UNCHANGED <<recorder_vars, command_vars, active_stream, streams, cb, op, files,
                   history_vars>>

\* Lines 117-122: a set flag is AlreadyRecording (both guards dropped);
\* otherwise clear the buffer, set the flag and release the state lock.
StartState(t) ==
    /\ pc[t] = "s_state"
    /\ state_lock' = "free"
    /\ IF is_recording
       THEN /\ Return(t, "AlreadyRecording")
            /\ slot_lock' = "free"
            /\ UNCHANGED <<is_recording, buffer>>
       ELSE /\ buffer' = <<>>
            /\ is_recording' = TRUE
            /\ Goto(t, "s_build")
            /\ UNCHANGED slot_lock
    /\ UNCHANGED <<recorder_vars, command_vars, active_stream, streams, cb, op, files,
                   history_vars>>

\* Lines 132-157: build the input stream for the negotiated format.  The
\* driver builds it or refuses; a format other than F32 and I16 is
\* NoSupportedConfig.  A failure returns with the slot guard dropped.
StartBuild(t) ==
    /\ pc[t] = "s_build"
    /\ IF ~Accepted(config)
       THEN /\ Return(t, "NoSupportedConfig")
            /\ slot_lock' = "free"
            /\ UNCHANGED <<streams, appended, cycle>>
       ELSE \/ /\ Len(streams) < MaxStreams
               /\ streams' = Append(streams, "built")
               /\ appended' = Append(appended, <<>>)
               /\ taken' = [taken EXCEPT ![t] = Len(streams) + 1]
               /\ pc' = [pc EXCEPT ![t] = "s_play"]
               /\ UNCHANGED <<slot_lock, result, path, buffer_copy, cycle>>
            \/ /\ Return(t, "BuildStreamError")
               /\ slot_lock' = "free"
               /\ cycle' = "off"
               /\ UNCHANGED <<streams, appended>>
    /\ UNCHANGED <<recorder_vars, command_vars, active_stream, shared_vars, cb, op, files>>

\* Lines 159-163: play the stream and store it in the slot; when the driver
\* refuses, the return drops the stream and the slot guard.
StartPlay(t) ==
    /\ pc[t] = "s_play"
    /\ slot_lock' = "free"
    /\ \/ /\ SetStream(taken[t], "playing")
          /\ active_stream' = taken[t]
          /\ Return(t, "Ok")
          /\ UNCHANGED <<appended, cycle>>
       \/ /\ CallbackQuiet(taken[t])
          /\ SetStream(taken[t], "dropped")
          /\ Forget(taken[t])
          /\ Return(t, "PlayStreamError")
          /\ cycle' = "off"
          /\ UNCHANGED active_stream
    /\ UNCHANGED <<recorder_vars, command_vars, shared_vars, cb, op, files>>

\* ------------------------------------------------------- input callback
\* The conversion each callback applies to a delivered block.
Normalize(fmt, data) ==
    [i \in 1..Len(data) |->
        IF fmt = "I16" THEN I16Sample(data[i]) ELSE F32Sample(data[i])]

\* A driver that goes on invoking the callback of a dropped stream.
Deliver_AfterDrop(s, data) ==
    /\ cb.pc = "idle"
    /\ streams[s] \in {"built", "playing", "dropped"}
    /\ Len(buffer) + Len(data) <= MaxBuffer
    /\ Len(appended[s]) + Len(data) <= MaxBuffer
    /\ cb' = [pc |-> "lock", stream |-> s, data |-> data]
    /\ UNCHANGED <<recorder_vars, command_vars, active_stream, slot_lock, shared_vars,
                   streams, call_vars, files, history_vars>>

\* The driver invokes the callback of a stream it runs with a block.  A
\* built stream may already run before play on hosts that start streams at
\* creation.
Deliver(s, data) ==
    /\ cb.pc = "idle"
    /\ streams[s] \in {"built", "playing"}
    /\ Len(buffer) + Len(data) <= MaxBuffer
    /\ Len(appended[s]) + Len(data) <= MaxBuffer
    /\ cb' = [pc |-> "lock", stream |-> s, data |-> data]
    /\ UNCHANGED <<recorder_vars, command_vars, active_stream, slot_lock, shared_vars,
                   streams, call_vars, files, history_vars>>

\* A callback that also takes the slot lock to look at the stream.
CallbackLock_TakesSlot ==
    /\ cb.pc = "lock"
    /\ state_lock = "free"
    /\ slot_lock = "free"
    /\ state_lock' = "cb"
    /\ slot_lock' = "cb"
    /\ cb' = [cb EXCEPT !.pc = "append"]
    /\ UNCHANGED <<recorder_vars, command_vars, active_stream, is_recording,
                   buffer, streams, call_vars, files, history_vars>>

\* Lines 136 and 147: the callback locks the shared state.
CallbackLock ==
    /\ cb.pc = "lock"
    /\ state_lock = "free"
    /\ state_lock' = "cb"
    /\ cb' = [cb EXCEPT !.pc = "append"]
    /\ UNCHANGED <<recorder_vars, command_vars, active_stream, slot_lock, is_recording,
                   buffer, streams, call_vars, files, history_vars>>

\* Lines 137-139 and 148-151: append the block when the flag is set, and
\* release the lock.
CallbackAppend ==
    /\ cb.pc = "append"
    /\ IF is_recording
       THEN /\ buffer' = buffer \o Normalize(config.fmt, cb.data)
            /\ appended' = [appended EXCEPT ![cb.stream] =
                               @ \o Normalize(config.fmt, cb.data)]
       ELSE UNCHANGED <<buffer, appended>>
    /\ state_lock' = "free"
    /\ cb' = CbIdle
    /\ UNCHANGED <<recorder_vars, command_vars, active_stream, slot_lock, is_recording,
                   streams, call_vars, files, cycle>>

\* -------------------------------------------------------- stop_recording
\* Lines 192-197: the WAV spec of the negotiated format.
WavSpec(c) ==
    [channels |-> c.channels, sample_rate |-> c.rate,
     bits_per_sample |-> BitsPerSample]

SetFile(p, f) == files' = [files EXCEPT ![p] = f]

\* What a failed write or finalize leaves at the path: a file whose
\* content is not tracked.
PartialFile == [state |-> "partial", header |-> NoSpec, frames |-> <<>>]

\* A thread calls AudioRecorder::stop_recording(output_path): on its own,
\* or from the stop_recording command with the command's output_path
\* (commands.rs line 63).
StopCall(t, p) ==
    /\ recorder = "ready"
    /\ pc[t] = "idle"
    /\ \/ cmd[t] = "direct"
       \/ cmd[t] = "c_stop_call" /\ p = output_path[t]
    /\ cmd' = IF cmd[t] = "direct" THEN cmd ELSE [cmd EXCEPT ![t] = "c_stop_ret"]
    /\ pc' = [pc EXCEPT ![t] = "t_take"]
    /\ op' = [op EXCEPT ![t] = "stop"]
    /\ result' = [result EXCEPT ![t] = "none"]
    /\ path' = [path EXCEPT ![t] = p]
    /\ cycle' = Alternate("stop")
    /\ UNCHANGED <<recorder_vars, now, recorder_lock, output_path, cmd_result,
                   requests, err_log, active_stream, slot_lock, shared_vars,
                   streams, cb, taken, buffer_copy, files, appended>>

\* stop_recording creating its output file before it looks at the slot.
StopTake_CreatesFile(t) ==
    /\ pc[t] = "t_take"
    /\ slot_lock = "free"
    /\ SetFile(path[t], [state |-> "open", header |-> WavSpec(config),
                         frames |-> <<>>])
    /\ IF active_stream = NoStream
       THEN /\ Return(t, "NotRecording")
            /\ UNCHANGED active_stream
       ELSE /\ taken' = [taken EXCEPT ![t] = active_stream]
            /\ active_stream' = NoStream
            /\ pc' = [pc EXCEPT ![t] = "t_pause"]
            /\ UNCHANGED <<result, path, buffer_copy>>
    /\ UNCHANGED <<recorder_vars, command_vars, slot_lock, shared_vars, streams, cb, op,
                   history_vars>>

\* stop_recording without the block of lines 167-170: the slot guard is
\* kept for the rest of the call.
StopTake_KeepsGuard(t) ==
    /\ pc[t] = "t_take"
    /\ slot_lock = "free"
    /\ IF active_stream = NoStream
       THEN /\ Return(t, "NotRecording")
            /\ UNCHANGED <<active_stream, slot_lock>>
       ELSE /\ taken' = [taken EXCEPT ![t] = active_stream]
            /\ active_stream' = NoStream
            /\ slot_lock' = t
            /\ pc' = [pc EXCEPT ![t] = "t_pause"]
            /\ UNCHANGED <<result, path, buffer_copy>>
    /\ UNCHANGED <<recorder_vars, command_vars, shared_vars, streams, cb, op,
                   files, history_vars>>

\* Lines 167-170: under the slot lock, take the stream out of the slot; an
\* empty slot is NotRecording.  The guard is dropped at the end of the block.
StopTake(t) ==
    /\ pc[t] = "t_take"
    /\ slot_lock = "free"
    /\ IF active_stream = NoStream
       THEN /\ Return(t, "NotRecording")
            /\ UNCHANGED active_stream
       ELSE /\ taken' = [taken EXCEPT ![t] = active_stream]
            /\ active_stream' = NoStream
            /\ pc' = [pc EXCEPT ![t] = "t_pause"]
            /\ UNCHANGED <<result, path, buffer_copy>>
    /\ UNCHANGED <<recorder_vars, command_vars, slot_lock, shared_vars, streams, cb, op,
                   files, history_vars>>

\* Line 173: pause the stream; when the driver refuses, the return drops
\* the stream.
StopPause(t) ==
    /\ pc[t] = "t_pause"
    /\ \/ /\ SetStream(taken[t], "paused")
          /\ Goto(t, "t_drop")
          /\ UNCHANGED <<appended, cycle>>
       \/ /\ CallbackQuiet(taken[t])
          /\ SetStream(taken[t], "dropped")
          /\ Forget(taken[t])
          /\ Return(t, "PauseStreamError")
          /\ cycle' = "off"
    /\ UNCHANGED <<recorder_vars, command_vars, active_stream, slot_lock, shared_vars, cb,
                   op, files>>

\* Line 174: drop the stream.
StopDrop(t) ==
    /\ pc[t] = "t_drop"
    /\ CallbackQuiet(taken[t])
    /\ SetStream(taken[t], "dropped")
    /\ Goto(t, "t_lock_state")
    /\ UNCHANGED <<recorder_vars, command_vars, active_stream, slot_lock, shared_vars, cb,
                   op, files, history_vars>>

\* Line 178: lock the shared state.
StopLockState(t) ==
    /\ pc[t] = "t_lock_state"
    /\ state_lock = "free"
    /\ state_lock' = t
    /\ Goto(t, "t_snapshot")
    /\ UNCHANGED <<recorder_vars, command_vars, active_stream, slot_lock, is_recording,
                   buffer, streams, cb, op, files, history_vars>>

\* The snapshot with lines 184 and 185 swapped: the buffer is cleared
\* before it is copied.
StopSnapshot_ClearFirst(t) ==
    /\ pc[t] = "t_snapshot"
    /\ is_recording' = FALSE
    /\ buffer' = <<>>
    /\ buffer_copy' = [buffer_copy EXCEPT ![t] = <<>>]
    /\ state_lock' = "free"
    /\ pc' = [pc EXCEPT ![t] = "t_create"]
    /\ UNCHANGED <<recorder_vars, command_vars, active_stream, slot_lock, streams, cb, op,
                   result, path, taken, files, history_vars>>

\* The snapshot without line 179: the flag stays set.
StopSnapshot_KeepsFlag(t) ==
    /\ pc[t] = "t_snapshot"
    /\ is_recording' = is_recording
    /\ buffer_copy' = [buffer_copy EXCEPT ![t] = buffer]
    /\ buffer' = <<>>
    /\ state_lock' = "free"
    /\ pc' = [pc EXCEPT ![t] = "t_create"]
    /\ UNCHANGED <<recorder_vars, command_vars, active_stream, slot_lock, streams, cb, op,
                   result, path, taken, files, history_vars>>

\* The snapshot treating an empty buffer as the error BufferEmpty.
StopSnapshot_RejectsEmpty(t) ==
    /\ pc[t] = "t_snapshot"
    /\ is_recording' = FALSE
    /\ buffer' = <<>>
    /\ state_lock' = "free"
    /\ IF buffer = <<>>
       THEN /\ Return(t, "BufferEmpty")
            /\ Forget(taken[t])
            /\ cycle' = "off"
       ELSE /\ buffer_copy' = [buffer_copy EXCEPT ![t] = buffer]
            /\ pc' = [pc EXCEPT ![t] = "t_create"]
            /\ UNCHANGED <<result, path, taken, history_vars>>
    /\ UNCHANGED <<recorder_vars, command_vars, active_stream, slot_lock, streams, cb, op,
                   files>>

\* The snapshot without line 185: the buffer is copied and not cleared.
StopSnapshot_CopyOnly(t) ==
    /\ pc[t] = "t_snapshot"
    /\ is_recording' = FALSE
    /\ buffer_copy' = [buffer_copy EXCEPT ![t] = buffer]
    /\ buffer' = buffer
    /\ state_lock' = "free"
    /\ pc' = [pc EXCEPT ![t] = "t_create"]
    /\ UNCHANGED <<recorder_vars, command_vars, active_stream, slot_lock, streams, cb, op,
                   result, path, taken, files, history_vars>>

\* Lines 179-187: clear the flag, copy the buffer out and clear it, release
\* the lock.  An empty buffer is only logged.
StopSnapshot(t) ==
    /\ pc[t] = "t_snapshot"
    /\ is_recording' = FALSE
    /\ buffer_copy' = [buffer_copy EXCEPT ![t] = buffer]
    /\ buffer' = <<>>
    /\ state_lock' = "free"
    /\ pc' = [pc EXCEPT ![t] = "t_create"]
    /\ UNCHANGED <<recorder_vars, command_vars, active_stream, slot_lock, streams, cb, op,
                   result, path, taken, files, history_vars>>

\* A stop_recording that puts the snapshot back into the buffer when the
\* file cannot be created, for a retry.
StopCreate_KeepsSamples(t) ==
    /\ pc[t] = "t_create"
    /\ \/ /\ SetFile(path[t], [state |-> "open", header |-> WavSpec(config),
                               frames |-> <<>>])
          /\ Goto(t, "t_write")
          /\ UNCHANGED <<appended, cycle, buffer>>
       \/ /\ Return(t, "IoError")
          /\ Forget(taken[t])
          /\ cycle' = "off"
          /\ buffer' = buffer_copy[t]
          /\ UNCHANGED files
       \/ /\ SetFile(path[t], PartialFile)
          /\ Return(t, "WavError")
          /\ Forget(taken[t])
          /\ cycle' = "off"
          /\ buffer' = buffer_copy[t]
    /\ UNCHANGED <<recorder_vars, command_vars, active_stream, slot_lock,
                   is_recording, state_lock, streams, cb, op>>

\* Lines 200-202: create (truncate) the file and start the WAV writer on
\* it.  File::create fails with IoError and leaves the path alone;
\* WavWriter::new fails with WavError on the created file.
StopCreate(t) ==
    /\ pc[t] = "t_create"
    /\ \/ /\ SetFile(path[t], [state |-> "open", header |-> WavSpec(config),
                               frames |-> <<>>])
          /\ Goto(t, "t_write")
          /\ UNCHANGED <<appended, cycle>>
       \/ /\ Return(t, "IoError")
          /\ Forget(taken[t])
          /\ cycle' = "off"
          /\ UNCHANGED files
       \/ /\ SetFile(path[t], PartialFile)
          /\ Return(t, "WavError")
          /\ Forget(taken[t])
          /\ cycle' = "off"
    /\ UNCHANGED <<recorder_vars, command_vars, active_stream, slot_lock, shared_vars,
                   streams, cb, op>>

\* Lines 204-207: convert and write every sample of the copy, in order; a
\* failing write_sample returns WavError (there is none to fail when the
\* copy is empty).
StopWrite(t) ==
    /\ pc[t] = "t_write"
    /\ \/ /\ SetFile(path[t], [files[path[t]] EXCEPT
                                  !.frames = EncodeSamples(buffer_copy[t])])
          /\ Goto(t, "t_finalize")
          /\ UNCHANGED <<appended, cycle>>
       \/ /\ buffer_copy[t] # <<>>
          /\ SetFile(path[t], PartialFile)
          /\ Return(t, "WavError")
          /\ Forget(taken[t])
          /\ cycle' = "off"
    /\ UNCHANGED <<recorder_vars, command_vars, active_stream, slot_lock, shared_vars,
                   streams, cb, op>>

\* Lines 209-212: finalize the WAV file.
StopFinalize(t) ==
    /\ pc[t] = "t_finalize"
    /\ Forget(taken[t])
    /\ \/ /\ SetFile(path[t], [files[path[t]] EXCEPT !.state = "final"])
          /\ Return(t, "Ok")
          /\ UNCHANGED cycle
       \/ /\ SetFile(path[t], PartialFile)
          /\ Return(t, "WavError")
          /\ cycle' = "off"
    /\ UNCHANGED <<recorder_vars, command_vars, active_stream, slot_lock, shared_vars,
                   streams, cb, op>>

\* -------------------------------------------------------------- commands
\* Display of AudioError (audio.rs lines 11-37); the text of a wrapped
\* driver or library error is left out.
Display(e) ==
    CASE e = "NoSupportedConfig" -> "No supported input config found"
      [] e = "BuildStreamError" -> "Failed to build input stream"
      [] e = "PlayStreamError" -> "Failed to play stream"
      [] e = "PauseStreamError" -> "Failed to pause stream"
      [] e = "WavError" -> "WAV Error"
      [] e = "IoError" -> "IO Error"
      [] e = "AlreadyRecording" -> "Recording is already in progress"
      [] e = "NotRecording" -> "Not currently recording"

\* impl From<E> for CommandError: the message is the error's Display.
FromError(e) == CommandError(Display(e))

\* The error of a command that finds None in AppState.recorder.
NotInitialized == CommandError("Audio recorder not initialized")

\* The command returns r to the frontend.
CommandReturn(t, r) ==
    /\ cmd' = [cmd EXCEPT ![t] = "idle"]
    /\ cmd_result' = [cmd_result EXCEPT ![t] = r]
    /\ output_path' = [output_path EXCEPT ![t] = "none"]

\* The frontend invokes the start_recording command.
StartCommand(t) ==
    /\ recorder # "uninit"
    /\ cmd[t] = "idle"
    /\ cmd' = [cmd EXCEPT ![t] = "c_start_lock"]
    /\ cmd_result' = [cmd_result EXCEPT ![t] = NoResult]
    /\ UNCHANGED <<recorder_vars, now, recorder_lock, output_path, requests,
                   err_log, active_stream, slot_lock, shared_vars, streams,
                   cb, call_vars, files, history_vars>>

\* The start_recording command calling the recorder without the mutex.
StartCommandLock_NoLock(t) ==
    /\ cmd[t] = "c_start_lock"
    /\ IF recorder = "ready"
       THEN /\ cmd' = [cmd EXCEPT ![t] = "c_start_call"]
            /\ UNCHANGED <<cmd_result, output_path>>
       ELSE CommandReturn(t, NotInitialized)
    /\ UNCHANGED <<recorder_vars, now, recorder_lock, requests, err_log,
                   active_stream, slot_lock, shared_vars, streams, cb,
                   call_vars, files, history_vars>>

\* The start_recording command answering Ok when it finds no recorder.
StartCommandLock_IgnoresNone(t) ==
    /\ cmd[t] = "c_start_lock"
    /\ recorder_lock = "free"
    /\ IF recorder = "ready"
       THEN /\ recorder_lock' = t
            /\ cmd' = [cmd EXCEPT ![t] = "c_start_call"]
            /\ UNCHANGED <<cmd_result, output_path>>
       ELSE /\ CommandReturn(t, CommandOk)
            /\ UNCHANGED recorder_lock
    /\ UNCHANGED <<recorder_vars, now, requests, err_log, active_stream,
                   slot_lock, shared_vars, streams, cb, call_vars, files,
                   history_vars>>

\* commands.rs lines 27-46: lock AppState.recorder; on None the command
\* returns its error and the guard is dropped.
StartCommandLock(t) ==
    /\ cmd[t] = "c_start_lock"
    /\ recorder_lock = "free"
    /\ IF recorder = "ready"
       THEN /\ recorder_lock' = t
            /\ cmd' = [cmd EXCEPT ![t] = "c_start_call"]
            /\ UNCHANGED <<cmd_result, output_path>>
       ELSE /\ CommandReturn(t, NotInitialized)
            /\ UNCHANGED recorder_lock
    /\ UNCHANGED <<recorder_vars, now, requests, err_log, active_stream,
                   slot_lock, shared_vars, streams, cb, call_vars, files,
                   history_vars>>

\* commands.rs lines 33-40: the recorder's call has returned; its error
\* becomes a CommandError, and the guard is dropped.
StartCommandReturn(t) ==
    /\ cmd[t] = "c_start_ret"
    /\ pc[t] = "idle"
    /\ recorder_lock' = "free"
    /\ CommandReturn(t, IF result[t] = "Ok" THEN CommandOk
                        ELSE FromError(result[t]))
    /\ UNCHANGED <<recorder_vars, now, requests, err_log, active_stream,
                   slot_lock, shared_vars, streams, cb, call_vars, files,
                   history_vars>>

\* The frontend invokes the stop_recording command.
StopCommand(t) ==
    /\ recorder # "uninit"
    /\ cmd[t] = "idle"
    /\ cmd' = [cmd EXCEPT ![t] = "c_stop_path"]
    /\ cmd_result' = [cmd_result EXCEPT ![t] = NoResult]
    /\ UNCHANGED <<recorder_vars, now, recorder_lock, output_path, requests,
                   err_log, active_stream, slot_lock, shared_vars, streams,
                   cb, call_vars, files, history_vars>>

\* files.rs lines 38-46: the file name is the clock's time in seconds.
FileName(secs) == PathNames[secs]

\* commands.rs line 54: create_new_recording_file_path names the output
\* file after the current second, or fails with a FileError.
StopCommandPath(t) ==
    /\ cmd[t] = "c_stop_path"
    /\ \/ /\ output_path' = [output_path EXCEPT ![t] = FileName(now)]
          /\ cmd' = [cmd EXCEPT ![t] = "c_stop_lock"]
          /\ UNCHANGED cmd_result
       \/ CommandReturn(t, CommandError("IO Error"))
    /\ UNCHANGED <<recorder_vars, now, recorder_lock, requests, err_log,
                   active_stream, slot_lock, shared_vars, streams, cb,
                   call_vars, files, history_vars>>

\* commands.rs lines 57-73: lock AppState.recorder; on None the command
\* returns its error and the guard is dropped.
StopCommandLock(t) ==
    /\ cmd[t] = "c_stop_lock"
    /\ recorder_lock = "free"
    /\ IF recorder = "ready"
       THEN /\ recorder_lock' = t
            /\ cmd' = [cmd EXCEPT ![t] = "c_stop_call"]
            /\ UNCHANGED <<cmd_result, output_path>>
       ELSE /\ CommandReturn(t, NotInitialized)
            /\ UNCHANGED recorder_lock
    /\ UNCHANGED <<recorder_vars, now, requests, err_log, active_stream,
                   slot_lock, shared_vars, streams, cb, call_vars, files,
                   history_vars>>

\* The stop_recording command without the scope of lines 56-74: the guard
\* lives on into the transcription.
StopCommandReturn_KeepsGuard(t) ==
    /\ cmd[t] = "c_stop_ret"
    /\ pc[t] = "idle"
    /\ IF result[t] = "Ok"
       THEN /\ cmd' = [cmd EXCEPT ![t] = "c_transcribe"]
            /\ UNCHANGED <<cmd_result, output_path, recorder_lock>>
       ELSE /\ CommandReturn(t, FromError(result[t]))
            /\ recorder_lock' = "free"
    /\ UNCHANGED <<recorder_vars, now, requests, err_log, active_stream,
                   slot_lock, shared_vars, streams, cb, call_vars, files,
                   history_vars>>

\* commands.rs lines 63-74: the recorder's call has returned and the guard
\* is dropped; an error ends the command, Ok goes on to the transcription.
StopCommandReturn(t) ==
    /\ cmd[t] = "c_stop_ret"
    /\ pc[t] = "idle"
    /\ recorder_lock' = "free"
    /\ IF result[t] = "Ok"
       THEN /\ cmd' = [cmd EXCEPT ![t] = "c_transcribe"]
            /\ UNCHANGED <<cmd_result, output_path>>
       ELSE CommandReturn(t, FromError(result[t]))
    /\ UNCHANGED <<recorder_vars, now, requests, err_log, active_stream,
                   slot_lock, shared_vars, streams, cb, call_vars, files,
                   history_vars>>

\* commands.rs lines 79-80 and WhisperClient::transcribe (whisper.rs lines
\* 73-110): a missing file is FileNotFound; reading the file may fail;
\* otherwise the request is sent and the command awaits the answer.
Transcribe(t) ==
    /\ cmd[t] = "c_transcribe"
    /\ IF files[output_path[t]].state = "absent"
       THEN /\ CommandReturn(t, CommandError("File not found"))
            /\ UNCHANGED requests
       ELSE \/ /\ CommandReturn(t, CommandError("IO Error"))
               /\ UNCHANGED requests
            \/ /\ requests' = requests \cup {output_path[t]}
               /\ cmd' = [cmd EXCEPT ![t] = "c_await"]
               /\ UNCHANGED <<cmd_result, output_path>>
    /\ UNCHANGED <<recorder_vars, now, recorder_lock, err_log, active_stream,
                   slot_lock, shared_vars, streams, cb, call_vars, files,
                   history_vars>>

\* commands.rs lines 80-93 and whisper.rs lines 110-126: the request
\* fails, the service answers with an error, or it answers with the
\* transcript.
TranscribeAnswer(t) ==
    /\ cmd[t] = "c_await"
    /\ \/ CommandReturn(t, CommandOk)
       \/ CommandReturn(t, CommandError("HTTP Request Error"))
    /\ UNCHANGED <<recorder_vars, now, recorder_lock, requests, err_log,
                   active_stream, slot_lock, shared_vars, streams, cb,
                   call_vars, files, history_vars>>

\* files.rs line 40: the system clock reaches the next second.
Tick ==
    /\ now < Len(PathNames)
    /\ now' = now + 1
    /\ UNCHANGED <<recorder_vars, cmd, recorder_lock, output_path,
                   cmd_result, requests, err_log, active_stream, slot_lock,
                   shared_vars, streams, cb, call_vars, files, history_vars>>

\* audio.rs lines 126-128: the driver reports an error of a stream to the
\* stream's error callback, which logs it.
StreamError(s) ==
    /\ streams[s] # "dropped"
    /\ s \notin err_log
    /\ err_log' = err_log \cup {s}
    /\ UNCHANGED <<recorder_vars, now, cmd, recorder_lock, output_path,
                   cmd_result, requests, active_stream, slot_lock,
                   shared_vars, streams, cb, call_vars, files, history_vars>>

\* ------------------------------------------------------- specifications
Callback ==
    \/ \E s \in 1..Len(streams) : \E data \in HwBlocks(config.fmt) : Deliver(s, data)
    \/ CallbackLock
    \/ CallbackAppend

\* The steps of a controller thread whose stop calls name a path of `paths`.
Controller(t, paths) ==
    \/ StartCall(t)
    \/ StartLockSlot(t)
    \/ StartLockState(t)
    \/ StartState(t)
    \/ StartBuild(t)
    \/ StartPlay(t)
    \/ \E p \in paths : StopCall(t, p)
    \/ StopTake(t)
    \/ StopPause(t)
    \/ StopDrop(t)
    \/ StopLockState(t)
    \/ StopSnapshot(t)
    \/ StopCreate(t)
    \/ StopWrite(t)
    \/ StopFinalize(t)

\* Controller threads call the recorder concurrently; their stop calls all
\* name the same output path.
Next ==
    \/ NewRecorder
    \/ \E t \in Threads : Controller(t, {"a.wav"})
    \/ Callback

Spec == Init /\ [][Next]_vars

\* One controller thread calls the recorder, one call after the other.
NextSeq ==
    \/ NewRecorder
    \/ Controller("t1", Paths)
    \/ Callback

SpecSeq == Init /\ [][NextSeq]_vars

\* Device negotiation alone, on every host within the bounds.
InitNeg == InitOn(AllHosts, "direct")

SpecNeg == InitNeg /\ [][NewRecorder]_vars

\* The hosts the commands are explored on: the lifecycle hosts (the third
\* has no acceptable format) and a host without an input device.
CommandHosts ==
    LifecycleHosts
    \cup {[has_device |-> FALSE, first |-> QueryErr, second |-> QueryErr]}

InitCommands == InitOn(CommandHosts, "idle")

\* The steps of a thread that runs the start_recording and stop_recording
\* commands.
Command(t) ==
    \/ StartCommand(t)
    \/ StartCommandLock(t)
    \/ StartCommandReturn(t)
    \/ StopCommand(t)
    \/ StopCommandPath(t)
    \/ StopCommandLock(t)
    \/ StopCommandReturn(t)
    \/ Transcribe(t)
    \/ TranscribeAnswer(t)

\* The application within one second of the clock: the frontend invokes
\* one command after the other while the driver runs the streams.
NextCommands ==
    \/ NewRecorder
    \/ Command("t1")
    \/ Controller("t1", Paths)
    \/ Callback
    \/ \E s \in 1..Len(streams) : StreamError(s)

SpecCommands == InitCommands /\ [][NextCommands]_vars

\* The application over the seconds of the clock: the recordings of
\* different seconds go to different files.
NextClock ==
    \/ NewRecorder
    \/ Command("t1")
    \/ Controller("t1", Paths)
    \/ Callback
    \/ Tick

SpecClock == InitCommands /\ [][NextClock]_vars

\* The host the concurrent commands are explored on: the integer device.
ConcurrentHosts ==
    { StableHost(<<[fmt |-> "I16", channels |-> 1, min |-> 44100, max |-> 48000]>>) }

InitConcurrent == InitOn(ConcurrentHosts, "idle")

\* The frontend invokes commands concurrently: Tauri runs each async
\* command as a task of its own.
NextConcurrent ==
    \/ NewRecorder
    \/ \E t \in Threads : Command(t)
    \/ \E t \in Threads : Controller(t, Paths)
    \/ Callback

SpecConcurrent == InitConcurrent /\ [][NextConcurrent]_vars

\* ================================================================ claims
StartSteps == {"s_lock_slot", "s_lock_state", "s_state", "s_build", "s_play"}
StopSteps == {"t_take", "t_pause", "t_drop", "t_lock_state", "t_snapshot",
              "t_create", "t_write", "t_finalize"}
\* The steps of stop_recording that hold the snapshot.
WritingSteps == {"t_create", "t_write", "t_finalize"}

\* The thread takes a step of its call.
Moves(t) == pc'[t] # pc[t]
\* The thread's call returns.
Returns(t) == pc[t] # "idle" /\ pc'[t] = "idle"

Idle == active_stream = NoStream /\ ~is_recording /\ buffer = <<>>
LiveStreams == {s \in 1..Len(streams) : streams[s] # "dropped"}
\* The real number 1.0 as a sample.
One == SampleDen * I16Max

\* C1: when start_recording, called on an Idle session, returns
\* BuildStreamError or PlayStreamError, the session is Idle: the slot is
\* empty, the buffer is empty and is_recording is false.
C1_FailedStartLeavesIdle ==
    [][\A t \in Threads :
         (Returns(t) /\ result'[t] \in {"BuildStreamError", "PlayStreamError"})
            => (active_stream' = NoStream /\ buffer' = <<>> /\ ~is_recording')]_vars

\* C2: a start_recording call that finds the slot occupied returns
\* AlreadyRecording and none of its steps changes the session: the slot
\* holds the same playing stream, is_recording stays true, the buffer is
\* as it was, and the call never reaches the driver.
C2_StartWhileActive ==
    [][\A t \in Threads :
         (pc[t] \in StartSteps /\ Moves(t) /\ active_stream # NoStream)
            => /\ pc'[t] \notin {"s_build", "s_play"}
               /\ Returns(t) => result'[t] = "AlreadyRecording"
               /\ active_stream' = active_stream
               /\ streams' = streams
               /\ streams[active_stream] = "playing"
               /\ is_recording /\ is_recording'
               /\ buffer' = buffer]_vars

\* A second start has returned AlreadyRecording while the first session
\* records on, with samples in the buffer.
C2_Witness ==
    \E t \in Threads :
        /\ pc[t] = "idle" /\ op[t] = "start" /\ result[t] = "AlreadyRecording"
        /\ active_stream # NoStream /\ streams[active_stream] = "playing"
        /\ is_recording /\ buffer # <<>>

\* C3: a stop_recording call that finds the slot empty returns
\* NotRecording, creates or writes no file, and leaves the slot,
\* is_recording, the buffer and the streams unchanged.
C3_StopWhileIdle ==
    [][\A t \in Threads :
         (pc[t] \in StopSteps /\ Moves(t) /\ taken[t] = NoStream
             /\ active_stream = NoStream)
            => /\ Returns(t) /\ result'[t] = "NotRecording"
               /\ files' = files
               /\ active_stream' = NoStream
               /\ is_recording' = is_recording
               /\ buffer' = buffer
               /\ streams' = streams]_vars

\* A stop without a start has returned NotRecording and no file exists.
C3_Witness ==
    \E t \in Threads :
        /\ pc[t] = "idle" /\ op[t] = "stop" /\ result[t] = "NotRecording"
        /\ streams = <<>>
        /\ \A p \in Paths : files[p] = NoFile

\* C4: whatever the interleaving of callbacks and controller calls, the
\* samples stop_recording holds for the WAV writer are exactly the samples
\* the callback of the stream it took appended, in the order of delivery.
C4_SnapshotIsAppended ==
    \A t \in Threads :
        pc[t] \in WritingSteps => buffer_copy[t] = appended[taken[t]]

\* A stop is about to write two different blocks.
C4_Witness ==
    \E t \in Threads :
        /\ pc[t] = "t_write"
        /\ Len(buffer_copy[t]) > 2
        /\ buffer_copy[t][1] # buffer_copy[t][3]

\* C5: at most one hardware stream exists (built and not dropped), whether
\* it is in the slot, held by a start before it is stored, or held by a
\* stop that took it out of the slot.
C5_AtMostOneStream == Cardinality(LiveStreams) <= 1

\* A stop holds the stream outside the slot while another thread's start
\* is past the test of the slot.
C5_Witness ==
    \E t, u \in Threads :
        /\ pc[t] = "t_drop" /\ streams[taken[t]] = "paused"
        /\ pc[u] = "s_state"

\* C6: while one controller alternates start and stop, beginning with
\* start, and no driver or file operation fails, every call returns Ok;
\* after a start the session is Active, after a stop it is Idle.
C6_Cycle ==
    cycle # "off" =>
        /\ result["t1"] \in {"none", "Ok"}
        /\ (pc["t1"] = "idle" /\ cycle = "start") => Idle
        /\ (pc["t1"] = "idle" /\ cycle = "stop") =>
              /\ active_stream # NoStream
              /\ streams[active_stream] = "playing"
              /\ is_recording

\* The second cycle in a row has ended with Ok.
C6_Witness ==
    /\ cycle = "start" /\ pc["t1"] = "idle"
    /\ op["t1"] = "stop" /\ result["t1"] = "Ok"
    /\ Len(streams) = 2

\* round(clamp(s, -1, 1) * 32767), halves away from zero.
RoundDiv(n, d) ==
    IF n >= 0 THEN (2 * n + d) \div (2 * d) ELSE -((2 * (-n) + d) \div (2 * d))
RoundedI16(v) == RoundDiv(Clamp(v, -One, One), SampleDen)

\* C7: the integers written to the WAV file are, sample for sample and in
\* order, round(clamp(s, -1, 1) * 32767) of the buffered samples.
C7_WrittenSamplesRounded ==
    [][\A t \in Threads :
         (pc[t] = "t_write" /\ pc'[t] = "t_finalize")
            => files'[path[t]].frames =
                 [i \in 1..Len(buffer_copy[t]) |-> RoundedI16(buffer_copy[t][i])]]_vars

\* C8: every buffered sample above 1.0 is written as 32767 and every
\* sample below -1.0 as -32767.
C8_SymmetricSaturation ==
    [][\A t \in Threads :
         (pc[t] = "t_write" /\ pc'[t] = "t_finalize")
            => \A i \in 1..Len(buffer_copy[t]) :
                 /\ buffer_copy[t][i] > One => files'[path[t]].frames[i] = I16Max
                 /\ buffer_copy[t][i] < -One => files'[path[t]].frames[i] = -I16Max]_vars

\* C9: a stop_recording that finds the buffer empty does not fail for it:
\* the snapshot goes on to create the file, no write can fail, no call
\* ever returns BufferEmpty, and when the call returns Ok the file at
\* output_path is a finalized WAV file with the header of the negotiated
\* format and zero frames.
C9_EmptyRecording ==
    [][\A t \in Threads :
         /\ (pc[t] = "t_snapshot" /\ Moves(t) /\ buffer = <<>>)
               => (pc'[t] = "t_create" /\ buffer_copy'[t] = <<>>)
         /\ (pc[t] = "t_write" /\ Moves(t) /\ buffer_copy[t] = <<>>)
               => pc'[t] = "t_finalize"
         /\ (pc[t] = "t_finalize" /\ Moves(t) /\ buffer_copy[t] = <<>>
                /\ result'[t] = "Ok")
               => files'[path[t]] = [state |-> "final",
                                     header |-> WavSpec(config),
                                     frames |-> <<>>]
         /\ result'[t] # "BufferEmpty"]_vars

\* A stop has returned Ok and left a finalized file with zero frames.
C9_Witness ==
    \E t \in Threads : \E p \in Paths :
        /\ pc[t] = "idle" /\ op[t] = "stop" /\ result[t] = "Ok"
        /\ files[p] = [state |-> "final", header |-> WavSpec(config),
                       frames |-> <<>>]

\* Configurations of a list that the claim's cases (a) and (b) speak of.
TargetCapable(l) ==
    {i \in 1..Len(l) : /\ l[i].fmt \in {"F32", "I16"}
                       /\ l[i].channels = 1
                       /\ l[i].min <= 16000 /\ 16000 <= l[i].max}
MonoCapable(l) ==
    {i \in 1..Len(l) : l[i].fmt \in {"F32", "I16"} /\ l[i].channels = 1}
AtRate(c, r) == [fmt |-> c.fmt, channels |-> c.channels, rate |-> r]

\* The preference order, with the fallback (b) read from the list `fb`.
PreferenceOrder(l, fb_ok, fb) ==
    IF TargetCapable(l) # {}
    THEN /\ new_result = "Ok"
         /\ \E i \in TargetCapable(l) : config = AtRate(l[i], 16000)
    ELSE IF fb_ok /\ MonoCapable(fb) # {}
    THEN /\ new_result = "Ok"
         /\ \E i \in MonoCapable(fb) : config = AtRate(fb[i], fb[i].max)
    ELSE new_result = "NoSupportedConfig" /\ config = NoConfig

Negotiated == recorder # "uninit" /\ host.has_device /\ host.first.ok

\* C10 as stated: for the list of supported configurations the device
\* reports, (a) a target-capable configuration is chosen at 16000 Hz,
\* (b) otherwise a mono configuration of the list at its maximum rate,
\* (c) otherwise negotiation fails with NoSupportedConfig.
C10_PreferenceOrder ==
    Negotiated => PreferenceOrder(host.first.list, TRUE, host.first.list)

\* C10 as amended: the fallback (b) is chosen from the device's second
\* enumeration, and fails with NoSupportedConfig when that enumeration
\* fails or lists no mono configuration in an accepted encoding.
C10_PreferenceOrderRequeried ==
    Negotiated => PreferenceOrder(host.first.list, host.second.ok, host.second.list)

\* The fallback was chosen although the first list holds stereo
\* configurations that support the target rate.
C10_Witness ==
    /\ recorder = "ready"
    /\ config.rate # 16000
    /\ TargetCapable(host.first.list) = {}
    /\ \E i \in 1..Len(host.first.list) :
          host.first.list[i].channels = 2 /\ host.first.list[i].min <= 16000

\* C11: when AudioRecorder::new fails at startup, the application runs
\* with the recorder unavailable: every command that returns has returned
\* a CommandError with a message, no stream was built, no file exists and
\* no transcription request was sent.
C11_RecordingUnavailable ==
    new_result \notin {"none", "Ok"} =>
        /\ recorder = "unavailable"
        /\ \A t \in Threads :
              cmd_result[t].done =>
                  ~cmd_result[t].ok /\ cmd_result[t].message # ""
        /\ streams = <<>>
        /\ \A p \in Paths : files[p] = NoFile
        /\ requests = {}

\* On a host without an input device a command has been refused.
C11_Witness ==
    /\ new_result = "NoDefaultInputDevice"
    /\ recorder = "unavailable"
    /\ cmd_result["t1"] = NotInitialized

\* C12: with 16-bit integer hardware the callback appends, for every
\* sample x of the delivered block and in the block's order, the value
\* x / 32767 to the buffer (the sample v with v / SampleDen = x); the
\* sample 32767 is buffered as 1.0.
C12_I16Normalized ==
    [][(cb.pc = "append" /\ cb'.pc = "idle" /\ config.fmt = "I16"
            /\ is_recording)
          => /\ Len(buffer') = Len(buffer) + Len(cb.data)
             /\ SubSeq(buffer', 1, Len(buffer)) = buffer
             /\ \A i \in 1..Len(cb.data) :
                   /\ buffer'[Len(buffer) + i] % SampleDen = 0
                   /\ buffer'[Len(buffer) + i] \div SampleDen = cb.data[i]
                   /\ cb.data[i] = I16Max => buffer'[Len(buffer) + i] = One]_vars

\* An integer block <<32767, 0>> has been appended twice.
C12_Witness ==
    /\ config.fmt = "I16"
    /\ buffer = <<One, 0, One, 0>>

\* The command of thread t returns to the frontend.
CommandReturns(t) == cmd[t] # "idle" /\ cmd'[t] = "idle"

\* C13: no failure is swallowed: a recorder call that returned an error
\* makes its command return a CommandError with a message, and no command
\* returns Ok while an error that the driver reported to a stream's error
\* handler has reached no caller.
C13_NoErrorSwallowed ==
    [][\A t \in Threads :
         CommandReturns(t) =>
            /\ (cmd[t] \in {"c_start_ret", "c_stop_ret"} /\ result[t] # "Ok")
                  => (~cmd_result'[t].ok /\ cmd_result'[t].message # "")
            /\ cmd_result'[t].ok => err_log' = {}]_vars

\* C14: when stop_recording returns PauseStreamError the session is
\* either Active (stream in the slot, is_recording true) or Idle (slot
\* empty, is_recording false).
C14_FailedStopAtomic ==
    [][\A t \in Threads :
         (Returns(t) /\ result'[t] = "PauseStreamError")
            => \/ active_stream' # NoStream /\ is_recording'
               \/ active_stream' = NoStream /\ ~is_recording']_vars

\* No start_recording or stop_recording call is in progress.
Quiescent == \A t \in Threads : pc[t] = "idle"

\* C15: in every quiescent state the slot is occupied if and only if
\* is_recording is true; so in no quiescent state would start be rejected
\* with AlreadyRecording (slot occupied or flag set) and stop with
\* NotRecording (slot empty) at once.
C15_SlotAgreesWithFlag ==
    Quiescent => ((active_stream # NoStream) <=> is_recording)

\* C16: stop_recording takes the stream out of the slot, pauses it, drops
\* it, and only then clears is_recording and snapshots and clears the
\* buffer in one critical section; no callback appends after the
\* snapshot, so the buffer is empty while the file is written, when stop
\* returns, and for as long as is_recording stays false.
C16_StopOrder ==
    /\ \A t \in Threads :
          /\ pc[t] = "t_pause"
                => /\ active_stream = NoStream
                   /\ streams[taken[t]] = "playing"
                   /\ is_recording
          /\ pc[t] = "t_drop"
                => streams[taken[t]] = "paused" /\ is_recording
          /\ pc[t] \in {"t_lock_state", "t_snapshot"}
                => streams[taken[t]] = "dropped" /\ is_recording
          /\ pc[t] = "t_snapshot" => state_lock = t
          /\ pc[t] \in WritingSteps
                => /\ ~is_recording
                   /\ buffer = <<>>
                   /\ LiveStreams = {}
                   /\ state_lock # t
    /\ ~is_recording => buffer = <<>>

\* A successful stop has returned after it wrote the samples of two
\* blocks, and the buffer is empty.
C16_Witness ==
    /\ pc["t1"] = "idle"
    /\ op["t1"] = "stop"
    /\ result["t1"] = "Ok"
    /\ Len(files["a.wav"].frames) = 4
    /\ buffer = <<>>

\* The positions at which a call is inside a driver call or file I/O.
BlockingSteps == {"s_build", "s_play", "t_pause", "t_drop"} \cup WritingSteps

\* C17: a controller call does not hold the shared-state lock while it
\* builds, plays, pauses or drops a stream or creates and writes the WAV
\* file; it holds the lock only to test and set the flag in start and to
\* take the snapshot in stop.
C17_NoLockAcrossBlocking ==
    \A t \in Threads :
        /\ pc[t] \in BlockingSteps => state_lock # t
        /\ state_lock = t => pc[t] \in {"s_state", "t_snapshot"}

\* The callback holds the shared-state lock while one call plays its
\* stream and another writes its file.
C17_Witness ==
    /\ pc["t1"] = "s_play"
    /\ pc["t2"] = "t_write"
    /\ state_lock = "cb"

\* The callback thread takes a step.
CallbackMoves == cb' # cb

\* C18: the callback takes only the shared-state lock: its steps leave the
\* slot lock, the slot and the streams alone, it appends the converted
\* block when is_recording is true and leaves the buffer unchanged
\* otherwise; the slot lock is held by controller calls only, and a
\* callback that waits for its lock can go on as soon as the shared-state
\* lock is free, whoever holds the slot lock.
C18_CallbackLocks ==
    /\ [][CallbackMoves =>
            /\ UNCHANGED <<slot_lock, active_stream, streams>>
            /\ buffer' = IF cb.pc = "append" /\ is_recording
                         THEN buffer \o Normalize(config.fmt, cb.data)
                         ELSE buffer]_vars
    /\ [](slot_lock \in Threads \cup {"free"})
    /\ []((cb.pc = "lock" /\ state_lock = "free") => ENABLED CallbackLock)
    /\ [](cb.pc = "append" => state_lock = "cb" /\ ENABLED CallbackAppend)

\* The callback appends a block while a start call holds the slot lock
\* across play.
C18_Witness ==
    /\ cb.pc = "append"
    /\ is_recording
    /\ slot_lock = "t1"
    /\ pc["t1"] = "s_play"

\* C19: when stop_recording fails after it stopped the stream, at the
\* creation, the writing or the finalizing of the WAV file, it returns
\* IoError or WavError and the session is Idle: the slot and the buffer are
\* empty, is_recording is false, both locks are free and no stream is
\* live, so that the next start is accepted; the snapshot is gone.
C19_FailedWriteLeavesIdle ==
    [][\A t \in Threads :
         (Returns(t) /\ pc[t] \in WritingSteps /\ result'[t] # "Ok")
            => /\ result'[t] \in
                    (IF pc[t] = "t_create" THEN {"IoError", "WavError"}
                     ELSE {"WavError"})
               /\ Idle'
               /\ slot_lock' = "free" /\ state_lock' = "free"
               /\ LiveStreams' = {}
               /\ buffer_copy'[t] = <<>>]_vars

\* After a stop that failed on its file, a start has been accepted.
C19_Witness ==
    /\ files["a.wav"] = PartialFile
    /\ pc["t1"] = "idle"
    /\ op["t1"] = "start"
    /\ result["t1"] = "Ok"
    /\ active_stream # NoStream

\* C20: the samples a successful stop_recording writes are, in order, the
\* conversions of the samples appended by the callback of the stream that
\* the most recent successful start opened, the last stream built; every
\* other stream is dropped, and nothing appended in an earlier cycle is in
\* the file.
C20_RecordingsIsolated ==
    [][\A t \in Threads :
         (Returns(t) /\ pc[t] = "t_finalize" /\ result'[t] = "Ok")
            => /\ taken[t] = Len(streams)
               /\ \A s \in 1..Len(streams) : streams[s] = "dropped"
               /\ files'[path[t]].state = "final"
               /\ files'[path[t]].frames = EncodeSamples(appended[taken[t]])]_vars

\* The second cycle's file is written after the stop of the first cycle
\* failed on its file.
C20_Witness ==
    /\ files["a.wav"] = PartialFile
    /\ files["b.wav"].state = "final"
    /\ files["b.wav"].frames # <<>>
    /\ Len(streams) = 2
    /\ result["t1"] = "Ok"
    /\ op["t1"] = "stop"

\* The positions of the stop_recording command in its transcription.
TranscribeSteps == {"c_transcribe", "c_await"}

\* C21: the stop_recording command reaches its transcription only from a
\* recorder stop that returned Ok, with the file finalized and the
\* recorder mutex released in that step; a request is sent only there, and
\* a failed stop ends the command with an error and no request.  During
\* the transcription the command does not hold the mutex, and a
\* start_recording command that waits for the mutex can take it.
C21_TranscribeAfterStop ==
    /\ [](\A t \in Threads :
            cmd[t] \in TranscribeSteps
               => /\ recorder_lock # t
                  /\ pc[t] = "idle" /\ op[t] = "stop" /\ result[t] = "Ok"
                  /\ \A u \in Threads :
                        cmd[u] = "c_start_lock" => ENABLED StartCommandLock(u))
    /\ [][\A t \in Threads :
            /\ (cmd[t] # "c_transcribe" /\ cmd'[t] = "c_transcribe")
                  => /\ cmd[t] = "c_stop_ret" /\ result[t] = "Ok"
                     /\ files[output_path[t]].state = "final"
                     /\ recorder_lock = t /\ recorder_lock' = "free"
            /\ (cmd[t] = "c_stop_ret" /\ cmd'[t] # "c_stop_ret"
                    /\ result[t] # "Ok")
                  => /\ cmd'[t] = "idle"
                     /\ ~cmd_result'[t].ok
                     /\ requests' = requests]_vars
    /\ [][requests' # requests
            => \E t \in Threads :
                  /\ cmd[t] = "c_transcribe"
                  /\ requests' = requests \cup {output_path[t]}]_vars

\* While the transcription of one command is awaited, a start_recording
\* command holds the mutex and plays its stream.
C21_Witness ==
    /\ cmd["t1"] = "c_await"
    /\ cmd["t2"] = "c_start_ret"
    /\ recorder_lock = "t2"
    /\ pc["t2"] = "s_play"

\* C22: every configuration that AudioRecorder::new returns is mono in
\* the encoding F32 or I16, so the test that sends start_recording into
\* its unsupported-format branch is false of it, and the WAV header
\* stop_recording writes for it is mono, 16 bits, at the negotiated rate.
C22_NegotiatedMonoPcm ==
    recorder = "ready" =>
        /\ new_result = "Ok"
        /\ config.channels = 1
        /\ config.fmt \in {"F32", "I16"}
        /\ Accepted(config)
        /\ config.rate \in {TargetRate} \cup {r[2] : r \in RateRanges}
        /\ WavSpec(config) = [channels |-> 1, sample_rate |-> config.rate,
                              bits_per_sample |-> 16]

\* A configuration was negotiated on a device that first lists a mono
\* configuration in an encoding the recorder does not accept.
C22_Witness ==
    /\ recorder = "ready"
    /\ Len(host.first.list) = 2
    /\ host.first.list[1].fmt = "U16"
    /\ host.first.list[1].channels = 1
    /\ host.first.list[2].channels = 2
    /\ config.fmt = "I16"

\* The controller thread waits for a lock that is held.
Blocked(t) ==
    \/ pc[t] \in {"s_lock_slot", "t_take"} /\ slot_lock # "free"
    \/ pc[t] \in {"s_lock_state", "t_lock_state"} /\ state_lock # "free"
\* The callback waits for the shared-state lock.
CallbackBlocked == cb.pc = "lock" /\ state_lock # "free"

\* C23: in no reachable state is some thread waiting for a lock while
\* every controller thread in a call and the callback wait for a lock; a
\* holder of the shared-state lock never waits; the slot lock is held only
\* by a start call, which waits for nothing but the shared-state lock; a
\* stop call and the callback hold no lock while they wait.
C23_NoDeadlock ==
    /\ ~ /\ (\E t \in Threads : Blocked(t)) \/ CallbackBlocked
         /\ \A t \in Threads : pc[t] = "idle" \/ Blocked(t)
         /\ cb.pc = "idle" \/ CallbackBlocked
    /\ \A t \in Threads :
          /\ state_lock = t => ~Blocked(t)
          /\ slot_lock = t
                => /\ pc[t] \in StartSteps
                   /\ Blocked(t) => pc[t] = "s_lock_state"
          /\ (pc[t] \in StopSteps /\ Blocked(t))
                => slot_lock # t /\ state_lock # t
    /\ state_lock = "cb" => cb.pc = "append"
    /\ slot_lock # "cb"

\* A start call holds the slot lock and waits for the shared-state lock,
\* which the callback of the stream that a stop call pauses holds.
C23_Witness ==
    /\ pc["t1"] = "t_pause"
    /\ pc["t2"] = "s_lock_state"
    /\ slot_lock = "t2"
    /\ state_lock = "cb"
    /\ Blocked("t2")

\* C24: when stop_recording creates its output file, no earlier recording
\* has used the path, and a file that was handed to the transcription
\* client is never written again.
C24_FreshPath ==
    [][\A t \in Threads :
         /\ (pc[t] = "t_create" /\ pc'[t] = "t_write")
               => files[path[t]].state = "absent"
         /\ \A p \in requests : files'[p] = files[p]]_vars

\* The positions of a command between taking and dropping the recorder
\* guard.
GuardedSteps == {"c_start_call", "c_start_ret", "c_stop_call", "c_stop_ret"}

\* C25: a command holds the recorder mutex from before the recorder's
\* call to after its return, so at most one recorder call is in progress;
\* while it is, the steps of the other commands leave the slot, the flag,
\* the locks of the controller, the streams and the files alone; and each
\* call returns what the session it found determines: AlreadyRecording on
\* an occupied slot or a set flag, NotRecording on an empty slot, and after
\* Ok from start the stream it built in the slot.
C25_CommandsSerialized ==
    /\ [](\A t \in Threads :
            /\ (cmd[t] \in GuardedSteps) <=> (recorder_lock = t)
            /\ pc[t] # "idle" => cmd[t] \in GuardedSteps
            /\ \A u \in Threads : (pc[t] # "idle" /\ pc[u] # "idle") => t = u)
    /\ [][\A t \in Threads :
            /\ (pc[t] # "idle" /\ pc'[t] = pc[t])
                  => UNCHANGED <<active_stream, slot_lock, is_recording,
                                 streams, files, taken, path, buffer_copy>>
            /\ (Returns(t) /\ result'[t] = "AlreadyRecording")
                  => /\ op[t] = "start"
                     /\ active_stream # NoStream \/ is_recording
                     /\ UNCHANGED <<active_stream, is_recording, streams>>
            /\ (Returns(t) /\ result'[t] = "NotRecording")
                  => /\ op[t] = "stop"
                     /\ active_stream = NoStream
                     /\ UNCHANGED <<active_stream, is_recording, streams, files>>
            /\ (Returns(t) /\ op[t] = "start" /\ result'[t] = "Ok")
                  => /\ active_stream = NoStream
                     /\ active_stream' = taken[t]
                     /\ is_recording'
                     /\ LiveStreams' = {taken[t]}]_vars

\* A stop_recording command waits for the mutex that a start_recording
\* command holds while it plays its stream.
C25_Witness ==
    /\ cmd["t2"] = "c_stop_lock"
    /\ recorder_lock = "t1"
    /\ cmd["t1"] = "c_start_ret"
    /\ pc["t1"] = "s_play"
====
